---- MODULE Spec2Model ----
(***************************************************************************)
(* Model of src-tauri/src/lib.rs of battery-analyzer-desktop: the two      *)
(* Tauri commands read_directory and process_battery_data.                 *)
(*                                                                         *)
(* process_battery_data is modelled as one process per in-flight call,     *)
(* stepping through the system calls of the function body; the filesystem  *)
(* and the child processes are the environment.  read_directory is         *)
(* modelled as a loop over the entries the directory enumeration yields.   *)
(***************************************************************************)
EXTENDS Integers, Sequences, FiniteSets, TLC

VARIABLES
    fs,             \* filesystem: path -> "none" | "dir" | "file"
    pc,             \* per call: position in process_battery_data
    config,         \* per call: the ProcessConfig argument
    output_folder,  \* per call: the local of lines 88-92
    cmd,            \* per call: argv of the Command of lines 107-122
    child,          \* per call: the child process of cmd.output()
    result,         \* per call: the returned Result<String, String>
    created,        \* per call: directories this call's create_dir_all made
    steps,          \* per call: the steps the call has executed, in order
    dir,            \* read_directory: what the path argument names
    entries,        \* read_directory: what fs::read_dir yields, in order
    lpc,            \* read_directory: position in the function
    idx,            \* read_directory: next entry of the for loop
    files,          \* read_directory: the Vec<FileInfo> of line 46
    lresult         \* read_directory: the returned Result

launcherVars == <<fs, pc, config, output_folder, cmd, child, result, created, steps>>
listerVars == <<dir, entries, lpc, idx, files, lresult>>
vars == <<fs, pc, config, output_folder, cmd, child, result, created, steps,
          dir, entries, lpc, idx, files, lresult>>

(***************************************************************************)
(* Bounds of the model.                                                    *)
(***************************************************************************)
\* f64 values are modelled as integers in units of 10^-FracDigits
FracDigits == 4
\* how many directories the OS lets one create_dir_all make before refusing
MaxMkdir == 3
\* how many entries a listed directory holds at most
MaxEntries == 3

\* the in-flight calls of process_battery_data
Calls == {"call1", "call2"}

(***************************************************************************)
(* Strings and paths.                                                      *)
(***************************************************************************)
Char(s, i) == SubSeq(s, i, i)

\* str::ends_with, line 54
EndsWith(s, suffix) ==
    /\ Len(s) >= Len(suffix)
    /\ SubSeq(s, Len(s) - Len(suffix) + 1, Len(s)) = suffix

RECURSIVE LastSlash(_, _)
LastSlash(p, i) ==
    IF i = 0 THEN 0
    ELSE IF Char(p, i) = "/" THEN i
    ELSE LastSlash(p, i - 1)

\* Path::parent for the absolute paths of the model; "/" has none ("")
Parent(p) ==
    IF p = "/" \/ p = "" THEN ""
    ELSE IF LastSlash(p, Len(p)) <= 1 THEN "/"
    ELSE SubSeq(p, 1, LastSlash(p, Len(p)) - 1)

\* the script location of line 99
python_script == "../main.py"

\* the directories and files the model's filesystem can hold
Paths == {"/d", "/d/o", "/d/o/p", "/f", "/f/x", python_script}

Kind(f, p) ==
    IF p = "/" THEN "dir"
    ELSE IF p \in DOMAIN f THEN f[p]
    ELSE "none"

\* Path::exists (lines 83, 102): true of files and of directories
Exists(f, p) == Kind(f, p) # "none"

\* Path::is_dir
IsDir(f, p) == Kind(f, p) = "dir"

RECURSIVE Ancestors(_)
Ancestors(p) ==
    IF Parent(p) = "" THEN {}
    ELSE {Parent(p)} \cup Ancestors(Parent(p))

\* a filesystem is a tree: whatever exists lies in a directory
WellFormed(f) ==
    \A p \in DOMAIN f :
        /\ Exists(f, p) /\ p # python_script => IsDir(f, Parent(p))
        /\ p = python_script => f[p] # "dir"

(***************************************************************************)
(* fs::create_dir_all (line 94), as std::fs::DirBuilder::create_dir_all:   *)
(* try mkdir; on NotFound create the parent first and retry; an error is   *)
(* forgiven when the path is a directory by then.  budget is the number of *)
(* directories the OS still lets this call create (permissions, quota).    *)
(* The value is [ok, fs, made, budget].                                    *)
(***************************************************************************)
\* mkdir(2): "ok" | "exists" | "notfound" | "notdir" | "denied"; the OS
\* refuses once the budget is spent (and outside the modelled paths)
Mkdir(f, p, budget) ==
    IF Exists(f, p) THEN "exists"
    ELSE IF Kind(f, Parent(p)) = "none" THEN "notfound"
    ELSE IF Kind(f, Parent(p)) = "file" THEN "notdir"
    ELSE IF budget = 0 \/ p \notin DOMAIN f THEN "denied"
    ELSE "ok"

\* the second mkdir of create_dir_all, once the parent was dealt with
MkdirAfterParent(up, p) ==
    IF ~up.ok THEN up
    ELSE
      LET second == Mkdir(up.fs, p, up.budget) IN
      IF second = "ok"
      THEN [ok |-> TRUE, fs |-> [up.fs EXCEPT ![p] = "dir"],
            made |-> up.made \cup {p}, budget |-> up.budget - 1]
      ELSE [ok |-> IsDir(up.fs, p), fs |-> up.fs,
            made |-> up.made, budget |-> up.budget]

RECURSIVE CreateDirAll(_, _, _, _)
CreateDirAll(f, p, made, budget) ==
    IF p = "" THEN [ok |-> TRUE, fs |-> f, made |-> made, budget |-> budget]
    ELSE
      LET first == Mkdir(f, p, budget) IN
      IF first = "ok"
      THEN [ok |-> TRUE, fs |-> [f EXCEPT ![p] = "dir"],
            made |-> made \cup {p}, budget |-> budget - 1]
      ELSE IF first # "notfound"
      THEN [ok |-> IsDir(f, p), fs |-> f, made |-> made, budget |-> budget]
      ELSE CHOOSE r \in { MkdirAfterParent(up, p) :
                          up \in {CreateDirAll(f, Parent(p), made, budget)} } : TRUE

(***************************************************************************)
(* f64::to_string (lines 113-117).  A value v stands for v / 10^FracDigits.*)
(* Rust prints the shortest decimal that reads back as the same f64: the   *)
(* integer part, and the fraction without trailing zeros when there is one.*)
(***************************************************************************)
RECURSIVE Pow10(_)
Pow10(n) == IF n = 0 THEN 1 ELSE 10 * Pow10(n - 1)

Scale == Pow10(FracDigits)

DigitChar(d) == Char("0123456789", d + 1)

RECURSIVE NatToString(_)
NatToString(n) ==
    IF n < 10 THEN DigitChar(n)
    ELSE NatToString(n \div 10) \o DigitChar(n % 10)

\* the fraction f / 10^width, digits left to right, trailing zeros dropped
RECURSIVE FracToString(_, _)
FracToString(f, width) ==
    IF f = 0 \/ width = 0 THEN ""
    ELSE DigitChar(f \div Pow10(width - 1))
         \o FracToString(f % Pow10(width - 1), width - 1)

Abs(v) == IF v < 0 THEN -v ELSE v

F64ToString(v) ==
    (IF v < 0 THEN "-" ELSE "")
    \o NatToString(Abs(v) \div Scale)
    \o (IF Abs(v) % Scale = 0 THEN ""
        ELSE "." \o FracToString(Abs(v) % Scale, FracDigits))

(***************************************************************************)
(* ProcessConfig (lines 15-36) and the configs a caller passes.            *)
(***************************************************************************)
Cfg(inp, out, method, ref, bd, be, zd, ze, mad, verbose, bar) ==
    [input_folder |-> inp, output_folder |-> out,
     outlier_method |-> method,
     boxplot_threshold_discharge |-> bd,
     boxplot_threshold_efficiency |-> be,
     zscore_threshold_discharge |-> zd,
     zscore_threshold_efficiency |-> ze,
     zscore_mad_constant |-> mad,
     reference_channel_method |-> ref,
     verbose |-> verbose, enable_progress_bar |-> bar]

\* 1.5, 2.0, 3.0, 3.5, 1.4826 with method "boxplot"
ValuesA(inp, out, verbose, bar) ==
    Cfg(inp, out, "boxplot", "",
        (3 * Scale) \div 2, 2 * Scale, 3 * Scale, (7 * Scale) \div 2,
        (14826 * Scale) \div 10000, verbose, bar)

\* -0.5, 0.0, the smallest fraction, 10.0, 1.05 with a method that reads as a flag
ValuesB(inp, out, verbose, bar) ==
    Cfg(inp, out, "--verbose", "median",
        -(Scale \div 2), 0, 1, 10 * Scale, Scale + Scale \div 20, verbose, bar)

InputFolders == {"", "/d", "/f"}
OutputFolders == {"", "/d/o/p", "/f/x"}

Configs ==
    {ValuesA(i, o, TRUE, FALSE) : i \in InputFolders, o \in OutputFolders}
    \cup {ValuesA("/d", "", v, b) : v \in BOOLEAN, b \in BOOLEAN}
    \cup {ValuesB("/d", "/d/o/p", v, b) : v \in BOOLEAN, b \in BOOLEAN}

NoConfig == Cfg("", "", "", "", 0, 0, 0, 0, 0, FALSE, FALSE)

(***************************************************************************)
(* Results.  err is the error of the taxonomy ("None" for Ok), text the    *)
(* string handed to the caller.  The source's messages are Chinese; the    *)
(* model keeps an ASCII rendering of each literal.                         *)
(***************************************************************************)
Pending == [done |-> FALSE, ok |-> FALSE, err |-> "None", text |-> ""]
Ok(text) == [done |-> TRUE, ok |-> TRUE, err |-> "None", text |-> text]
Err(kind, text) == [done |-> TRUE, ok |-> FALSE, err |-> kind, text |-> text]

\* line 129
SuccessMarker == "[ok] data processing complete\n\n"
\* line 132
FailureMarker == "[x] python script failed:\n"
\* line 135
LaunchMarker == "[x] could not start python script: "
\* line 84
InputMissingText == "input folder does not exist"
\* line 95
OutputCreateText == "could not create output folder: "
\* line 103
ScriptMissingText == "python script does not exist: "

(***************************************************************************)
(* The child process.  Its standard streams are bytes; the model's bytes   *)
(* are ASCII letters and 255, a byte that is never valid UTF-8.            *)
(***************************************************************************)
NoChild == [state |-> "none", success |-> FALSE, stdout |-> <<>>, stderr |-> <<>>]

Running == [state |-> "running", success |-> FALSE, stdout |-> <<>>, stderr |-> <<>>]

\* what a child can have done by the time it exits: ExitStatus::success()
\* is true of exit code 0 only (not of other codes, not of a signal)
ChildOutcomes ==
    { [state |-> "exited", success |-> TRUE,  stdout |-> <<111, 107>>, stderr |-> <<>>],
      [state |-> "exited", success |-> TRUE,  stdout |-> <<111, 255>>, stderr |-> <<119>>],
      [state |-> "exited", success |-> FALSE, stdout |-> <<111, 107>>, stderr |-> <<101>>],
      [state |-> "exited", success |-> FALSE, stdout |-> <<>>, stderr |-> <<255, 101>>] }

ReplacementChar == "<U+FFFD>"

ByteToStr(b) ==
    CASE b = 101 -> "e"
      [] b = 107 -> "k"
      [] b = 111 -> "o"
      [] b = 119 -> "w"
      [] OTHER -> ReplacementChar

\* String::from_utf8_lossy (lines 128, 131)
RECURSIVE FromUtf8Lossy(_)
FromUtf8Lossy(bytes) ==
    IF bytes = <<>> THEN ""
    ELSE ByteToStr(Head(bytes)) \o FromUtf8Lossy(Tail(bytes))

\* the OS error texts a failed call carries
OsErrors == {"No such file or directory", "Permission denied"}

(***************************************************************************)
(* The argument list of lines 107-122 (the program is "python").           *)
(***************************************************************************)
\* a slip: the progress-bar switch forwarded like --verbose
BuildArgsForwardingProgressBar(c, out) ==
    LET fixed ==
          << python_script,
             "--input_folder", c.input_folder,
             "--output_folder", out,
             "--outlier_method", c.outlier_method,
             "--reference_channel_method", c.reference_channel_method,
             "--boxplot_threshold_discharge", F64ToString(c.boxplot_threshold_discharge),
             "--boxplot_threshold_efficiency", F64ToString(c.boxplot_threshold_efficiency),
             "--zscore_threshold_discharge", F64ToString(c.zscore_threshold_discharge),
             "--zscore_threshold_efficiency", F64ToString(c.zscore_threshold_efficiency),
             "--zscore_mad_constant", F64ToString(c.zscore_mad_constant) >>
        withVerbose == IF c.verbose THEN Append(fixed, "--verbose") ELSE fixed
    IN  IF c.enable_progress_bar
        THEN Append(withVerbose, "--enable_progress_bar")
        ELSE withVerbose

BuildArgs(c, out) ==
    LET fixed ==
          << python_script,
             "--input_folder", c.input_folder,
             "--output_folder", out,
             "--outlier_method", c.outlier_method,
             "--reference_channel_method", c.reference_channel_method,
             "--boxplot_threshold_discharge", F64ToString(c.boxplot_threshold_discharge),
             "--boxplot_threshold_efficiency", F64ToString(c.boxplot_threshold_efficiency),
             "--zscore_threshold_discharge", F64ToString(c.zscore_threshold_discharge),
             "--zscore_threshold_efficiency", F64ToString(c.zscore_threshold_efficiency),
             "--zscore_mad_constant", F64ToString(c.zscore_mad_constant) >>
    IN  IF c.verbose THEN Append(fixed, "--verbose") ELSE fixed

\* a slip: the fallback to the input folder forgotten
EffectiveOutputNoFallback(c) == c.output_folder

\* lines 88-92
EffectiveOutput(c) ==
    IF c.output_folder = "" THEN c.input_folder ELSE c.output_folder

(***************************************************************************)
(* process_battery_data, lines 81-137, one action per system call.         *)
(***************************************************************************)
Return(call, r) ==
    /\ result' = [result EXCEPT ![call] = r]
    /\ pc' = [pc EXCEPT ![call] = "done"]
    /\ steps' = [steps EXCEPT ![call] = Append(@, "return")]

\* the command is invoked (line 81): the config is moved into the call
Invoke(call) ==
    /\ pc[call] = "idle"
    /\ \E c \in Configs : config' = [config EXCEPT ![call] = c]
    /\ pc' = [pc EXCEPT ![call] = "check_input"]
    /\ UNCHANGED <<fs, output_folder, cmd, child, result, created, steps>>
    /\ UNCHANGED listerVars

\* a slip: the early return of line 84 missing
CheckInputNoReturn(call) ==
    /\ pc[call] = "check_input"
    /\ output_folder' = [output_folder EXCEPT ![call] = EffectiveOutput(config[call])]
    /\ pc' = [pc EXCEPT ![call] = "create_output"]
    /\ steps' = [steps EXCEPT ![call] = Append(@, "check_input")]
    /\ UNCHANGED <<fs, config, cmd, child, created, result>>
    /\ UNCHANGED listerVars

\* lines 83-92
CheckInput(call) ==
    /\ pc[call] = "check_input"
    /\ IF ~Exists(fs, config[call].input_folder)
       THEN /\ result' = [result EXCEPT ![call] = Err("InputMissing", InputMissingText)]
            /\ pc' = [pc EXCEPT ![call] = "done"]
            /\ steps' = [steps EXCEPT ![call] = @ \o <<"check_input", "return">>]
            /\ UNCHANGED output_folder
       ELSE /\ output_folder' = [output_folder EXCEPT ![call] = EffectiveOutput(config[call])]
            /\ pc' = [pc EXCEPT ![call] = "create_output"]
            /\ steps' = [steps EXCEPT ![call] = Append(@, "check_input")]
            /\ UNCHANGED result
    /\ UNCHANGED <<fs, config, cmd, child, created>>
    /\ UNCHANGED listerVars

\* lines 94-96
CreateOutputDir(call) ==
    /\ pc[call] = "create_output"
    /\ \E budget \in 0..MaxMkdir :
         \E r \in {CreateDirAll(fs, output_folder[call], {}, budget)} :
           /\ fs' = r.fs
           /\ created' = [created EXCEPT ![call] = @ \cup r.made]
           /\ IF r.ok
              THEN /\ pc' = [pc EXCEPT ![call] = "check_script"]
                   /\ steps' = [steps EXCEPT ![call] = Append(@, "create_output")]
                   /\ UNCHANGED result
              ELSE /\ \E e \in OsErrors :
                        result' = [result EXCEPT ![call] =
                                     Err("OutputCreateError", OutputCreateText \o e)]
                   /\ pc' = [pc EXCEPT ![call] = "done"]
                   /\ steps' = [steps EXCEPT ![call] = @ \o <<"create_output", "return">>]
    /\ UNCHANGED <<config, output_folder, cmd, child>>
    /\ UNCHANGED listerVars

\* a slip: the output directory removed again when the script is missing
CheckScriptWithRollback(call) ==
    /\ pc[call] = "check_script"
    /\ IF ~Exists(fs, python_script)
       THEN /\ result' = [result EXCEPT ![call] =
                            Err("ScriptMissing", ScriptMissingText \o python_script)]
            /\ pc' = [pc EXCEPT ![call] = "done"]
            /\ steps' = [steps EXCEPT ![call] = @ \o <<"check_script", "return">>]
            /\ fs' = [p \in DOMAIN fs |-> IF p \in created[call] THEN "none" ELSE fs[p]]
            /\ UNCHANGED cmd
       ELSE /\ cmd' = [cmd EXCEPT ![call] = BuildArgs(config[call], output_folder[call])]
            /\ pc' = [pc EXCEPT ![call] = "spawn"]
            /\ steps' = [steps EXCEPT ![call] = Append(@, "check_script")]
            /\ UNCHANGED <<result, fs>>
    /\ UNCHANGED <<config, output_folder, child, created>>
    /\ UNCHANGED listerVars

\* lines 99-122
CheckScript(call) ==
    /\ pc[call] = "check_script"
    /\ IF ~Exists(fs, python_script)
       THEN /\ result' = [result EXCEPT ![call] =
                            Err("ScriptMissing", ScriptMissingText \o python_script)]
            /\ pc' = [pc EXCEPT ![call] = "done"]
            /\ steps' = [steps EXCEPT ![call] = @ \o <<"check_script", "return">>]
            /\ UNCHANGED cmd
       ELSE /\ cmd' = [cmd EXCEPT ![call] = BuildArgs(config[call], output_folder[call])]
            /\ pc' = [pc EXCEPT ![call] = "spawn"]
            /\ steps' = [steps EXCEPT ![call] = Append(@, "check_script")]
            /\ UNCHANGED result
    /\ UNCHANGED <<fs, config, output_folder, child, created>>
    /\ UNCHANGED listerVars

\* a single-flight guard: no spawn while another call's child runs
SpawnSingleFlight(call) ==
    /\ pc[call] = "spawn"
    /\ \A other \in Calls \ {call} : child[other].state # "running"
    /\ \/ /\ child' = [child EXCEPT ![call] = Running]
          /\ pc' = [pc EXCEPT ![call] = "wait"]
          /\ steps' = [steps EXCEPT ![call] = Append(@, "spawn")]
          /\ UNCHANGED result
       \/ \E e \in OsErrors :
            /\ result' = [result EXCEPT ![call] = Err("LaunchError", LaunchMarker \o e)]
            /\ pc' = [pc EXCEPT ![call] = "done"]
            /\ steps' = [steps EXCEPT ![call] = @ \o <<"spawn_failed", "return">>]
            /\ UNCHANGED child
    /\ UNCHANGED <<fs, config, output_folder, cmd, created>>
    /\ UNCHANGED listerVars

\* line 125, first half: cmd.output() starts the child, or fails to
Spawn(call) ==
    /\ pc[call] = "spawn"
    /\ \/ /\ child' = [child EXCEPT ![call] = Running]
          /\ pc' = [pc EXCEPT ![call] = "wait"]
          /\ steps' = [steps EXCEPT ![call] = Append(@, "spawn")]
          /\ UNCHANGED result
       \/ \E e \in OsErrors :
            /\ result' = [result EXCEPT ![call] = Err("LaunchError", LaunchMarker \o e)]
            /\ pc' = [pc EXCEPT ![call] = "done"]
            /\ steps' = [steps EXCEPT ![call] = @ \o <<"spawn_failed", "return">>]
            /\ UNCHANGED child
    /\ UNCHANGED <<fs, config, output_folder, cmd, created>>
    /\ UNCHANGED listerVars

\* the environment: a running child terminates
ChildExit(call) ==
    /\ child[call].state = "running"
    /\ \E o \in ChildOutcomes : child' = [child EXCEPT ![call] = o]
    /\ UNCHANGED <<fs, pc, config, output_folder, cmd, result, created, steps>>
    /\ UNCHANGED listerVars

\* a slip: the failure branch carrying stdout instead of stderr
CollectStdoutOnFailure(call) ==
    /\ pc[call] = "wait"
    /\ child[call].state = "exited"
    /\ Return(call,
              IF child[call].success
              THEN Ok(SuccessMarker \o FromUtf8Lossy(child[call].stdout))
              ELSE Err("ExternalFailure", FailureMarker \o FromUtf8Lossy(child[call].stdout)))
    /\ UNCHANGED <<fs, config, output_folder, cmd, child, created>>
    /\ UNCHANGED listerVars

\* a retry: a failed child is started again instead of being reported
CollectRetrying(call) ==
    /\ pc[call] = "wait"
    /\ child[call].state = "exited"
    /\ IF child[call].success
       THEN /\ Return(call, Ok(SuccessMarker \o FromUtf8Lossy(child[call].stdout)))
            /\ UNCHANGED child
       ELSE /\ pc' = [pc EXCEPT ![call] = "spawn"]
            /\ child' = [child EXCEPT ![call] = NoChild]
            /\ UNCHANGED <<result, steps>>
    /\ UNCHANGED <<fs, config, output_folder, cmd, created>>
    /\ UNCHANGED listerVars

\* a timeout: the call gives up on a child that is still running
CollectWithTimeout(call) ==
    /\ pc[call] = "wait"
    /\ IF child[call].state = "exited"
       THEN Return(call,
                   IF child[call].success
                   THEN Ok(SuccessMarker \o FromUtf8Lossy(child[call].stdout))
                   ELSE Err("ExternalFailure",
                            FailureMarker \o FromUtf8Lossy(child[call].stderr)))
       ELSE Return(call, Err("ExternalFailure", FailureMarker \o "timed out"))
    /\ UNCHANGED <<fs, config, output_folder, cmd, child, created>>
    /\ UNCHANGED listerVars

\* lines 125-136, second half: cmd.output() returns once the child has exited
Collect(call) ==
    /\ pc[call] = "wait"
    /\ child[call].state = "exited"
    /\ Return(call,
              IF child[call].success
              THEN Ok(SuccessMarker \o FromUtf8Lossy(child[call].stdout))
              ELSE Err("ExternalFailure", FailureMarker \o FromUtf8Lossy(child[call].stderr)))
    /\ UNCHANGED <<fs, config, output_folder, cmd, child, created>>
    /\ UNCHANGED listerVars

\* the steps the calling thread itself takes
CallStep(call) ==
    \/ CheckInput(call)
    \/ CreateOutputDir(call)
    \/ CheckScript(call)
    \/ Spawn(call)
    \/ Collect(call)

(***************************************************************************)
(* read_directory, lines 40-77.                                            *)
(***************************************************************************)
\* the path argument of the call
ListedPath == "/data"

\* names a directory entry can have
EntryNames == {"a.xlsx", "b.xls", ".xls", "c.txt", "d.xlsx.bak", "e.XLS"}

\* what one item of the fs::read_dir iterator can be: the item itself may be
\* an Err (readable = FALSE); entry.metadata() may fail (meta_ok = FALSE);
\* metadata.modified() may be unavailable (mtime < 0)
EntryKinds ==
    { [readable |-> TRUE,  kind |-> "file", len |-> 7,    meta_ok |-> TRUE,  mtime |-> 17,
       nested |-> {}],
      [readable |-> TRUE,  kind |-> "file", len |-> 0,    meta_ok |-> TRUE,  mtime |-> -1,
       nested |-> {}],
      [readable |-> TRUE,  kind |-> "dir",  len |-> 4096, meta_ok |-> TRUE,  mtime |-> 17,
       nested |-> {"n.xlsx"}],
      [readable |-> TRUE,  kind |-> "file", len |-> 7,    meta_ok |-> FALSE, mtime |-> 17,
       nested |-> {}],
      [readable |-> FALSE, kind |-> "file", len |-> 7,    meta_ok |-> TRUE,  mtime |-> 17,
       nested |-> {}] }

\* a child of the listed directory; nested are the names inside it when it
\* is a directory itself
Entry(name, k) ==
    [name |-> name, readable |-> k.readable, kind |-> k.kind, len |-> k.len,
     meta_ok |-> k.meta_ok, mtime |-> k.mtime, nested |-> k.nested]

\* the enumerations of a directory: its children, each once, in any order
Listings ==
    { s \in UNION { [1..n -> {Entry(nm, k) : nm \in EntryNames, k \in EntryKinds}] :
                    n \in 0..MaxEntries } :
        \A i, j \in DOMAIN s : i # j => s[i].name # s[j].name }

\* line 54
IsExcel(file_name) == EndsWith(file_name, ".xlsx") \/ EndsWith(file_name, ".xls")

\* line 60: the Debug rendering of the SystemTime, UNIX_EPOCH when unavailable
LastModified(e) ==
    "SystemTime { tv_sec: " \o NatToString(IF e.mtime < 0 THEN 0 ELSE e.mtime)
    \o ", tv_nsec: 0 }"

\* lines 62-68
FileInfo(e) ==
    [name |-> e.name,
     path |-> ListedPath \o "/" \o e.name,
     size |-> e.len,
     is_excel |-> IsExcel(e.name),
     last_modified |-> LastModified(e)]

ListPending == [done |-> FALSE, ok |-> FALSE, err |-> "None", files |-> <<>>]
ListOk(fl) == [done |-> TRUE, ok |-> TRUE, err |-> "None", files |-> fl]
ListErr(kind) == [done |-> TRUE, ok |-> FALSE, err |-> kind, files |-> <<>>]

\* lines 40-49 and 73: the existence check and fs::read_dir
ReadDirectory ==
    /\ lpc = "idle"
    /\ IF dir = "missing"
       THEN /\ lresult' = ListErr("NotFound")
            /\ lpc' = "done"
       ELSE IF dir # "dir"
       THEN /\ lresult' = ListErr("ReadError")
            /\ lpc' = "done"
       ELSE /\ lpc' = "loop"
            /\ UNCHANGED lresult
    /\ idx' = 1
    /\ files' = <<>>
    /\ UNCHANGED <<dir, entries>>
    /\ UNCHANGED launcherVars

\* best effort: an entry whose metadata cannot be read is skipped
LoopStepSkippingBadMetadata ==
    /\ lpc = "loop"
    /\ idx <= Len(entries)
    /\ LET e == entries[idx] IN
       /\ files' = IF e.readable /\ IsExcel(e.name) /\ e.meta_ok
                   THEN Append(files, FileInfo(e))
                   ELSE files
       /\ idx' = idx + 1
       /\ UNCHANGED <<lpc, lresult>>
    /\ UNCHANGED <<dir, entries>>
    /\ UNCHANGED launcherVars

\* lines 50-71: one iteration of the for loop
LoopStep ==
    /\ lpc = "loop"
    /\ idx <= Len(entries)
    /\ LET e == entries[idx] IN
       IF e.readable /\ IsExcel(e.name) /\ ~e.meta_ok
       THEN /\ lresult' = ListErr("MetadataError")
            /\ lpc' = "done"
            /\ UNCHANGED <<files, idx>>
       ELSE /\ files' = IF e.readable /\ IsExcel(e.name)
                        THEN Append(files, FileInfo(e))
                        ELSE files
            /\ idx' = idx + 1
            /\ UNCHANGED <<lpc, lresult>>
    /\ UNCHANGED <<dir, entries>>
    /\ UNCHANGED launcherVars

\* line 76
ReturnFiles ==
    /\ lpc = "loop"
    /\ idx > Len(entries)
    /\ lresult' = ListOk(files)
    /\ lpc' = "done"
    /\ UNCHANGED <<dir, entries, idx, files>>
    /\ UNCHANGED launcherVars

(***************************************************************************)
(* Specifications.                                                         *)
(***************************************************************************)
\* the filesystems a call can start in: /f is a regular file
InitialFs ==
    { f \in [Paths -> {"none", "dir", "file"}] :
        /\ WellFormed(f)
        /\ f["/f"] = "file"
        /\ f["/d"] # "file" /\ f["/d/o"] # "file" }

LauncherIdle ==
    /\ pc = [c \in Calls |-> "idle"]
    /\ config = [c \in Calls |-> NoConfig]
    /\ output_folder = [c \in Calls |-> ""]
    /\ cmd = [c \in Calls |-> <<>>]
    /\ child = [c \in Calls |-> NoChild]
    /\ result = [c \in Calls |-> Pending]
    /\ created = [c \in Calls |-> {}]
    /\ steps = [c \in Calls |-> <<>>]

ListerIdle ==
    /\ lpc = "idle"
    /\ idx = 1
    /\ files = <<>>
    /\ lresult = ListPending

\* the launcher: no call in flight, any initial filesystem
Init ==
    /\ fs \in InitialFs
    /\ LauncherIdle
    /\ dir = "missing"
    /\ entries = <<>>
    /\ ListerIdle

Next ==
    \E call \in Calls :
        \/ Invoke(call)
        \/ CallStep(call)
        \/ ChildExit(call)

Spec == Init /\ [][Next]_vars

\* the calling threads are scheduled; a child may run for ever
FairSpec == Spec /\ \A call \in Calls : WF_vars(CallStep(call))

\* the lister: one call on any directory
ListInit ==
    /\ fs = [p \in Paths |-> "none"]
    /\ LauncherIdle
    /\ dir \in {"missing", "file", "unreadable", "dir"}
    /\ entries \in Listings
    /\ dir # "dir" => entries = <<>>
    /\ ListerIdle

ListNext == ReadDirectory \/ LoopStep \/ ReturnFiles

ListSpec == ListInit /\ [][ListNext]_vars

(***************************************************************************)
(* Properties.                                                             *)
(***************************************************************************)
Started(call) == pc[call] # "idle"
Returned(call) == result[call].done
SpawnAttempted(call) == pc[call] = "wait" \/ "spawn" \in {steps[call][k] : k \in DOMAIN steps[call]}
                        \/ "spawn_failed" \in {steps[call][k] : k \in DOMAIN steps[call]}

\* C1: a call whose input folder does not exist at the existence check
\* returns InputMissing in that very step, and the step creates no directory
\* and starts no child: the filesystem is as before, the call has created
\* nothing, built no command and has no child.
C1_InputMissing ==
    [][\A call \in Calls :
         (/\ pc[call] = "check_input"
          /\ ~Exists(fs, config[call].input_folder)
          /\ pc'[call] # pc[call])
         => /\ result'[call] = Err("InputMissing", InputMissingText)
            /\ pc'[call] = "done"
            /\ fs' = fs
            /\ created'[call] = {}
            /\ child'[call] = NoChild
            /\ cmd'[call] = <<>>]_vars

\* a call was refused for a missing input folder although it names an output
\* folder to create, while the other call did create directories
C1_Witness ==
    \E call \in Calls, other \in Calls :
        /\ result[call].err = "InputMissing"
        /\ config[call].output_folder # ""
        /\ created[call] = {}
        /\ created[other] # {}

\* the flags of the external program, in the order of lines 109-117
FlagNames ==
    << "--input_folder", "--output_folder", "--outlier_method",
       "--reference_channel_method", "--boxplot_threshold_discharge",
       "--boxplot_threshold_efficiency", "--zscore_threshold_discharge",
       "--zscore_threshold_efficiency", "--zscore_mad_constant" >>

DigitVal(c) == CHOOSE d \in 0..9 : DigitChar(d) = c

RECURSIVE ParseNat(_)
ParseNat(s) ==
    IF Len(s) = 0 THEN 0
    ELSE 10 * ParseNat(SubSeq(s, 1, Len(s) - 1)) + DigitVal(Char(s, Len(s)))

RECURSIVE DotPos(_, _)
DotPos(s, i) ==
    IF i > Len(s) THEN 0
    ELSE IF Char(s, i) = "." THEN i
    ELSE DotPos(s, i + 1)

\* how the receiving program reads a decimal back, in units of 10^-FracDigits
ParseDecimal(s) ==
    LET neg == Len(s) > 0 /\ Char(s, 1) = "-"
        body == IF neg THEN SubSeq(s, 2, Len(s)) ELSE s
        dot == DotPos(body, 1)
        whole == IF dot = 0 THEN body ELSE SubSeq(body, 1, dot - 1)
        frac == IF dot = 0 THEN "" ELSE SubSeq(body, dot + 1, Len(body))
        mag == ParseNat(whole) * Scale + ParseNat(frac) * Pow10(FracDigits - Len(frac))
    IN  IF neg THEN -mag ELSE mag

\* the values of a config in the order of FlagNames, the numbers as numbers
ArgsCarry(a, c) ==
    /\ a[2] = c.input_folder
    /\ a[4] = (IF c.output_folder = "" THEN c.input_folder ELSE c.output_folder)
    /\ a[6] = c.outlier_method
    /\ a[8] = c.reference_channel_method
    /\ ParseDecimal(a[10]) = c.boxplot_threshold_discharge
    /\ ParseDecimal(a[12]) = c.boxplot_threshold_efficiency
    /\ ParseDecimal(a[14]) = c.zscore_threshold_discharge
    /\ ParseDecimal(a[16]) = c.zscore_threshold_efficiency
    /\ ParseDecimal(a[18]) = c.zscore_mad_constant

C3_OutcomeByChild ==
    \A call \in Calls :
        (Returned(call) /\ SpawnAttempted(call)) =>
          /\ child[call].state \in {"none", "exited"}
          /\ child[call].state = "exited" /\ child[call].success
             => result[call] = Ok(SuccessMarker \o FromUtf8Lossy(child[call].stdout))
          /\ child[call].state = "exited" /\ ~child[call].success
             => result[call] = Err("ExternalFailure",
                                   FailureMarker \o FromUtf8Lossy(child[call].stderr))
          /\ child[call].state = "none"
             => /\ result[call].err = "LaunchError"
                /\ \E e \in OsErrors : result[call].text = LaunchMarker \o e
          /\ result[call].ok \/ result[call].err \in {"ExternalFailure", "LaunchError"}

\* a child failed with text on both streams and the call carried its stderr
C3_Witness ==
    \E call \in Calls :
        /\ Returned(call)
        /\ child[call].state = "exited" /\ ~child[call].success
        /\ child[call].stdout # <<>> /\ child[call].stdout # child[call].stderr
        /\ result[call].text = FailureMarker \o "e"

\* C4: the effective output folder is config.output_folder, or
\* config.input_folder when that is empty; the directory creation and the
\* --output_folder argument use that one value; it is computed once, and the
\* config is never changed by the call.
C4_EffectiveOutput ==
    /\ [](\A call \in Calls :
            LET c == config[call]
                eff == IF c.output_folder = "" THEN c.input_folder ELSE c.output_folder IN
            /\ pc[call] \in {"create_output", "check_script", "spawn", "wait"}
               => output_folder[call] = eff
            /\ created[call] \subseteq ({eff} \cup Ancestors(eff))
            /\ pc[call] \in {"check_script", "spawn", "wait"} => IsDir(fs, eff)
            /\ cmd[call] # <<>> => cmd[call][4] = "--output_folder" /\ cmd[call][5] = eff)
    /\ [][\A call \in Calls :
            /\ Started(call) => config'[call] = config[call]
            /\ pc[call] \notin {"idle", "check_input"}
               => output_folder'[call] = output_folder[call]]_vars

\* a call with an empty output_folder has created nothing and passes its
\* input folder as --output_folder, while a call with an output folder of
\* its own has created that folder
C4_Witness ==
    \E call \in Calls, other \in Calls :
        /\ config[call].output_folder = "" /\ cmd[call] # <<>>
        /\ cmd[call][5] = config[call].input_folder
        /\ config[other].output_folder = "/d/o/p" /\ cmd[other] # <<>>
        /\ "/d/o/p" \in created[other]

\* the step sequences of a linear run
StepOrder == <<"check_input", "create_output", "check_script", "spawn">>

LinearRuns ==
    {SubSeq(StepOrder, 1, k) : k \in 0..4}
    \cup {SubSeq(StepOrder, 1, k) \o <<"return">> : k \in 1..4}
    \cup {SubSeq(StepOrder, 1, 3) \o <<"spawn_failed", "return">>}

\* C7: the steps of a call occur in the order input check, output directory,
\* script check, spawn, return, none of them twice; a validation failure
\* ends the call with no child; a child is started only after the three
\* validations passed; a call with a child returns only after it exited.
C7_LinearStateMachine ==
    \A call \in Calls :
        /\ steps[call] \in LinearRuns
        /\ Returned(call) <=> (pc[call] = "done")
        /\ Returned(call) <=> (steps[call] # <<>> /\ steps[call][Len(steps[call])] = "return")
        /\ result[call].err \in {"InputMissing", "OutputCreateError", "ScriptMissing"}
           => child[call] = NoChild /\ ~SpawnAttempted(call)
        /\ child[call].state # "none"
           => /\ SubSeq(steps[call], 1, 4) = StepOrder
              /\ Exists(fs, config[call].input_folder)
              /\ IsDir(fs, output_folder[call])
              /\ Exists(fs, python_script)
        /\ Returned(call) /\ child[call].state # "none" => child[call].state = "exited"

\* a call ran all five steps and returned the failure of its child
C7_Witness ==
    \E call \in Calls :
        /\ steps[call] = StepOrder \o <<"return">>
        /\ result[call].err = "ExternalFailure"

\* C8: nothing coordinates two calls: whatever the other call is doing, a
\* call can be invoked, can take its next step, can start its child, its
\* child can exit and it can collect the result.
C8_Uncoordinated ==
    \A call \in Calls :
        /\ pc[call] = "idle" => ENABLED Invoke(call)
        /\ pc[call] \in {"check_input", "create_output", "check_script", "spawn"}
           => ENABLED CallStep(call)
        /\ pc[call] = "spawn" => ENABLED (Spawn(call) /\ child'[call].state = "running")
        /\ child[call].state = "running" => ENABLED ChildExit(call)
        /\ pc[call] = "wait" /\ child[call].state = "exited" => ENABLED Collect(call)

\* both calls have a child running at once, on the same input and output
\* folders
C8_Witness ==
    /\ \A call \in Calls : pc[call] = "wait" /\ child[call].state = "running"
    /\ \E c1 \in Calls, c2 \in Calls :
         /\ c1 # c2
         /\ config[c1].input_folder = config[c2].input_folder
         /\ output_folder[c1] = output_folder[c2]

\* both calls have a child running at once, on different output folders
C8_WitnessDifferentFolders ==
    /\ \A call \in Calls : pc[call] = "wait" /\ child[call].state = "running"
    /\ \E c1 \in Calls, c2 \in Calls :
         /\ config[c1].input_folder # config[c2].input_folder
         /\ output_folder[c1] # output_folder[c2]

\* C9: a started call returns, provided its child, if it has one, does not
\* run for ever;
\* it returns once (the outcome never changes afterwards); and it never
\* returns while its child is running, so a child that runs for ever blocks
\* the call for ever.
C9_ReturnsIffChildExits ==
    /\ \A call \in Calls :
         []<>(child[call].state # "running")
         => (Started(call) ~> Returned(call))
    /\ [](\A call \in Calls : Returned(call) => child[call].state # "running")
    /\ [][\A call \in Calls : Returned(call) => result'[call] = result[call]]_vars

\* a call has returned the output of a child that exited
C9_Witness ==
    \E call \in Calls, other \in Calls :
        /\ Returned(call) /\ result[call].ok /\ child[call].state = "exited"
        /\ pc[other] = "wait" /\ child[other].state = "running"

\* C10 as stated: the three later errors leave the output directory in
\* place, and only InputMissing and OutputCreateError can leave the
\* filesystem as the call found it.
C10_AsStated ==
    \A call \in Calls :
        result[call].err \in {"ScriptMissing", "LaunchError", "ExternalFailure"}
        => /\ IsDir(fs, output_folder[call])
           /\ created[call] # {}

\* C10, amended: a call that fails with ScriptMissing, LaunchError or
\* ExternalFailure leaves the effective output directory and all its parents
\* in place, those it created included; so a call that returns while that
\* directory does not exist failed with InputMissing or OutputCreateError.
C10_NoRollback ==
    \A call \in Calls :
        LET c == config[call]
            eff == IF c.output_folder = "" THEN c.input_folder ELSE c.output_folder IN
        /\ result[call].err \in {"ScriptMissing", "LaunchError", "ExternalFailure"}
           => /\ IsDir(fs, eff)
              /\ \A p \in Ancestors(eff) : IsDir(fs, p)
              /\ \A p \in created[call] : IsDir(fs, p)
        /\ Returned(call) /\ ~result[call].ok /\ ~IsDir(fs, eff)
           => result[call].err \in {"InputMissing", "OutputCreateError"}

\* a call failed for the missing script after creating the output directory
\* and its missing parent
C10_Witness ==
    \E call \in Calls :
        /\ result[call].err = "ScriptMissing"
        /\ {"/d/o", "/d/o/p"} \subseteq created[call]
        /\ IsDir(fs, "/d/o/p")

\* the names of the model that end with .xlsx or .xls
SpreadsheetNames == {"a.xlsx", "b.xls", ".xls"}

\* an entry the enumeration yielded whose name is a spreadsheet name
Matching(e) == e.readable /\ e.name \in SpreadsheetNames

IsSpreadsheetFile(e) == Matching(e) /\ e.kind = "file"

\* the result holds one FileInfo per entry of kept, in order, with its name,
\* its path and its length
ListsExactly(fl, kept) ==
    /\ Len(fl) = Len(kept)
    /\ \A k \in DOMAIN fl :
         /\ fl[k].name = kept[k].name
         /\ fl[k].size = kept[k].len
         /\ fl[k].path = ListedPath \o "/" \o kept[k].name
         /\ fl[k].is_excel

\* C5: a successful call returns exactly the direct children that are files
\* with a name ending in .xlsx or .xls, each with its length, and nothing
\* else: no other name, nothing from a nested directory, nothing that is not
\* a file.
C5_ExactlySpreadsheetFiles ==
    (lresult.done /\ lresult.ok)
    => /\ ListsExactly(lresult.files, SelectSeq(entries, IsSpreadsheetFile))
       /\ \A k \in DOMAIN lresult.files :
            \A i \in DOMAIN entries : lresult.files[k].name \notin entries[i].nested

\* C6: a call returns an error and no list, or the list of all matching
\* entries; a matching entry whose metadata cannot be read fails the whole
\* call with MetadataError, wherever it stands in the enumeration and
\* whatever was collected before it.
C6_AllOrNothing ==
    lresult.done =>
      /\ lresult.ok => ListsExactly(lresult.files, SelectSeq(entries, Matching))
      /\ ~lresult.ok => lresult.files = <<>>
      /\ (dir = "dir" /\ \E i \in DOMAIN entries : Matching(entries[i]) /\ ~entries[i].meta_ok)
         <=> lresult = ListErr("MetadataError")
      /\ dir = "missing" <=> lresult = ListErr("NotFound")
      /\ dir \in {"file", "unreadable"} <=> lresult = ListErr("ReadError")

\* the metadata of the third entry could not be read after two entries had
\* been collected, and the call failed as a whole
C6_Witness ==
    /\ lresult = ListErr("MetadataError")
    /\ idx = 3
    /\ Len(files) = 2

====
